---- MODULE Spec2Model ----
(***************************************************************************)
(* Model of python_proxy_headers: the pycurl binding (ProxyCurl.request),  *)
(* the cloudscraper binding (CipherSuiteProxyHeaderAdapter,                *)
(* ProxyCloudScraper) and the autoscraper binding (ProxyAutoScraper).      *)
(*                                                                         *)
(* Text is modelled as a sequence of one-character strings, so that        *)
(* strip/split/startswith/lower/int act on characters as in the code.      *)
(* An Optional value is <<>> (None) or <<x>> (the value x).  A dict is a   *)
(* sequence of <<key, value>> pairs with pairwise distinct keys, in        *)
(* insertion order.                                                        *)
(***************************************************************************)
EXTENDS Integers, Sequences, FiniteSets, TLC

\* ------------------------------------------------------------------ bounds
\* lines the transport delivers to header_callback in one parser run
MaxLines == 4
\* lines the transport delivers in one request of the response-assembly runs
MaxResponseLines == 4
\* lines the transport delivers in one request of the runs over every argument shape
MaxCurlLines == 2
\* lines the transport delivers in one request of the header lookup runs
MaxLookupLines == 3

\* ------------------------------------------------------------------ text
None == <<>>
Some(x) == <<x>>

Whitespace == {" ", "\t", "\n", "\r", "\f"}
Digits == <<"0", "1", "2", "3", "4", "5", "6", "7", "8", "9">>
UpperLetters == <<"A", "B", "C", "D", "E", "F", "G", "H", "I", "J", "K", "L", "M",
                  "N", "O", "P", "Q", "R", "S", "T", "U", "V", "W", "X", "Y", "Z">>
LowerLetters == <<"a", "b", "c", "d", "e", "f", "g", "h", "i", "j", "k", "l", "m",
                  "n", "o", "p", "q", "r", "s", "t", "u", "v", "w", "x", "y", "z">>

IsDigit(c) == \E i \in 1..10 : Digits[i] = c
DigitVal(c) == (CHOOSE i \in 1..10 : Digits[i] = c) - 1
UpperSet == {UpperLetters[i] : i \in 1..26}
IsUpper(c) == c \in UpperSet
IsLower(c) == \E i \in 1..26 : LowerLetters[i] = c

LowerChar(c) == IF IsUpper(c) THEN LowerLetters[CHOOSE i \in 1..26 : UpperLetters[i] = c] ELSE c

\* str.lower()
Lower(s) == [i \in 1..Len(s) |-> LowerChar(s[i])]

\* str.startswith(p)
StartsWith(s, p) == Len(s) >= Len(p) /\ SubSeq(s, 1, Len(p)) = p

\* c in s
Contains(s, c) == \E i \in 1..Len(s) : s[i] = c

\* s.index(c) for a c that occurs in s
IndexOf(s, c) == CHOOSE i \in 1..Len(s) : s[i] = c /\ \A j \in 1..(i - 1) : s[j] # c

\* str.strip(): drops leading and trailing whitespace
Strip(s) ==
    LET keep == {i \in 1..Len(s) : s[i] \notin Whitespace}
    IN  IF keep = {} THEN <<>>
        ELSE SubSeq(s, CHOOSE i \in keep : \A j \in keep : i <= j,
                       CHOOSE i \in keep : \A j \in keep : i >= j)

\* str.split(sep, maxsplit) for a one-character sep
RECURSIVE Split(_, _, _)
Split(s, sep, maxsplit) ==
    IF maxsplit = 0 \/ ~Contains(s, sep) THEN <<s>>
    ELSE LET i == IndexOf(s, sep)
         IN  <<SubSeq(s, 1, i - 1)>> \o Split(SubSeq(s, i + 1, Len(s)), sep, maxsplit - 1)

\* value of a non-empty all-digit text
RECURSIVE DecValue(_)
DecValue(s) == IF s = <<>> THEN 0 ELSE 10 * DecValue(SubSeq(s, 1, Len(s) - 1)) + DigitVal(s[Len(s)])

\* int(s) accepts surrounding whitespace, one optional sign, then digits
IntBody(s) == IF s # <<>> /\ s[1] \in {"+", "-"} THEN Tail(s) ELSE s
IntValid(s) ==
    LET b == IntBody(Strip(s))
    IN  b # <<>> /\ \A i \in 1..Len(b) : IsDigit(b[i])
\* int(s): Some(n), or None where Python raises ValueError
IntOf(s) ==
    IF ~IntValid(s) THEN None
    ELSE LET t == Strip(s)
         IN  Some(IF t[1] = "-" THEN 0 - DecValue(IntBody(t)) ELSE DecValue(IntBody(t)))

\* f"{n}" for a natural number n
RECURSIVE ToDec(_)
ToDec(n) == IF n < 10 THEN <<Digits[n + 1]>> ELSE ToDec(n \div 10) \o <<Digits[(n % 10) + 1]>>

\* ------------------------------------------------------------------ dict
DictKeys(d) == {d[i][1] : i \in 1..Len(d)}
DictHas(d, k) == \E i \in 1..Len(d) : d[i][1] = k
DictGet(d, k) == d[CHOOSE i \in 1..Len(d) : d[i][1] = k][2]
\* d[k] = v: replaces the value in place, or appends a new key
DictSet(d, k, v) ==
    IF DictHas(d, k) THEN [i \in 1..Len(d) |-> IF d[i][1] = k THEN <<k, v>> ELSE d[i]]
    ELSE Append(d, <<k, v>>)
\* d.update(e)
RECURSIVE DictUpdate(_, _)
DictUpdate(d, e) == IF e = <<>> THEN d ELSE DictUpdate(DictSet(d, e[1][1], e[1][2]), Tail(e))

\* [f"{k}: {v}" for k, v in d.items()]
HeaderList(d) == [i \in 1..Len(d) |-> d[i][1] \o <<":", " ">> \o d[i][2]]

\* ------------------------------------------------------------------ wire
\* What the proxy and the origin put on the wire, one item per header line.
\* kind "status": HTTP/1.1 <code> <b>; "header": <a>: <b>; "blank": the empty
\* line ending a block; "raw": the text <a> as it stands.
Item(kind, code, a, b) == [kind |-> kind, code |-> code, a |-> a, b |-> b]
StatusItem(code, reason) == Item("status", code, <<>>, reason)
HeaderItem(name, value) == Item("header", 0, name, value)
BlankItem == Item("blank", 0, <<>>, <<>>)
RawItem(text) == Item("raw", 0, text, <<>>)

HTTPVersion == <<"H", "T", "T", "P", "/", "1", ".", "1">>
CRLF == <<"\r", "\n">>

\* the bytes of one line as the transport hands them to header_callback
Serialize(it) ==
    CASE it.kind = "status" -> HTTPVersion \o <<" ">> \o ToDec(it.code) \o <<" ">> \o it.b \o CRLF
      [] it.kind = "header" -> it.a \o <<":", " ">> \o it.b \o CRLF
      [] it.kind = "blank"  -> CRLF
      [] OTHER              -> it.a \o CRLF

NameA == <<"X", "-", "A">>
NameB == <<"X", "-", "B">>
ReasonOK == <<"O", "K">>

StatusOK == StatusItem(200, ReasonOK)
StatusAuth == StatusItem(407, <<"N", "o">>)
HeaderA1 == HeaderItem(NameA, <<"1">>)
HeaderB2 == HeaderItem(NameB, <<"2">>)
HeaderA9 == HeaderItem(NameA, <<"9">>)
StatusZero == StatusItem(0, ReasonOK)
StatusBadCode == RawItem(HTTPVersion \o <<" ", "a", "b", "c">>)
StatusNoCode == RawItem(HTTPVersion)
Junk == RawItem(<<"z", "z">>)

\* lines of the parser runs
ParserItems == {StatusOK, StatusAuth, HeaderA1, HeaderB2, HeaderA9, BlankItem,
                StatusZero, StatusBadCode, StatusNoCode, Junk}
\* lines of the response-assembly runs
ResponseItems == {StatusOK, StatusAuth, HeaderA1, HeaderB2}
\* lines of the runs over every argument shape
CurlItems == {StatusOK, HeaderA1}
\* lines and names of the header lookup runs
NameALower == <<"x", "-", "a">>
HeaderLowerA7 == HeaderItem(NameALower, <<"7">>)
LookupItems == {StatusOK, HeaderA1, HeaderLowerA7, HeaderB2}
LookupNames == {NameA, NameALower, <<"X", "-", "a">>, <<"x", "-", "b">>, <<"X", "-", "C">>}

\* ------------------------------------------------------------------ header parse
\* the three loop variables of the parse
ParseState(headers, status, sections) ==
    [current_headers |-> headers, current_status |-> status, header_sections |-> sections]

\* `current_headers or current_status`
SectionOpen(st) ==
    st.current_headers # <<>> \/ (st.current_status # None /\ st.current_status[1] # 0)

\* `header_sections.append((current_status, current_headers))` when the section is open
CloseSection(st) ==
    IF SectionOpen(st)
    THEN Append(st.header_sections, <<st.current_status, st.current_headers>>)
    ELSE st.header_sections

\* the status a line starting with HTTP/ leaves in current_status
StatusOfLine(st, line_str) ==
    LET parts == Split(line_str, " ", 2)
    IN  IF Len(parts) >= 2 THEN IntOf(parts[2]) ELSE st.current_status

\* ParseLine without the `current_headers = {}` of a new section
ParseLineKeepingHeaders(st, line) ==
    LET line_str == Strip(line)
    IN  IF StartsWith(line_str, <<"H", "T", "T", "P", "/">>)
        THEN ParseState(st.current_headers, StatusOfLine(st, line_str), CloseSection(st))
        ELSE IF Contains(line_str, ":")
        THEN LET kv == Split(line_str, ":", 1)
             IN  [st EXCEPT !.current_headers = DictSet(@, Strip(kv[1]), Strip(kv[2]))]
        ELSE st

\* ParseLine with a blank line ending the current section
ParseLineBlankEnds(st, line) ==
    LET line_str == Strip(line)
    IN  IF line_str = <<>>
        THEN ParseState(<<>>, None, CloseSection(st))
        ELSE IF StartsWith(line_str, <<"H", "T", "T", "P", "/">>)
        THEN ParseState(<<>>, StatusOfLine(st, line_str), CloseSection(st))
        ELSE IF Contains(line_str, ":")
        THEN LET kv == Split(line_str, ":", 1)
             IN  [st EXCEPT !.current_headers = DictSet(@, Strip(kv[1]), Strip(kv[2]))]
        ELSE st

\* one iteration of `for line in header_lines`
ParseLine(st, line) ==
    LET line_str == Strip(line)
    IN  IF StartsWith(line_str, <<"H", "T", "T", "P", "/">>)
        THEN ParseState(<<>>, StatusOfLine(st, line_str), CloseSection(st))
        ELSE IF Contains(line_str, ":")
        THEN LET kv == Split(line_str, ":", 1)
             IN  [st EXCEPT !.current_headers = DictSet(@, Strip(kv[1]), Strip(kv[2]))]
        ELSE st

RECURSIVE ParseLoop(_, _)
ParseLoop(st, lines) ==
    IF lines = <<>> THEN st ELSE ParseLoop(ParseLine(st, lines[1]), Tail(lines))

\* header_sections after the loop and the closing append
ParseHeaders(lines) == CloseSection(ParseLoop(ParseState(<<>>, None, <<>>), lines))

\* ------------------------------------------------------------------ ProxyCurl
VARIABLES
    self_proxy_headers,   \* ProxyCurl._proxy_headers
    pycurl_build,         \* what the installed pycurl exposes of PROXYHEADER and HEADEROPT
    pc,                   \* "idle", or "perform" while c.perform() runs
    args,                 \* the arguments of the current (or last) request call
    c,                    \* the options set on the request's pycurl.Curl handle
    is_https_via_proxy,   \* the local of that name
    wire,                 \* the items the proxy and the origin sent during this request
    header_lines,         \* the local list header_callback appends to
    header_sections,      \* the local of that name once the parse has run
    result,               \* what the last request call returned or raised
    status_check,         \* what raise_for_status did when the caller ran it on the response
    header_lookup,        \* the caller's last _check_header lookup on the response headers
    earlier_failed,       \* the request before this one raised after lines were captured
    earlier_proxy_headers \* the proxy_headers argument of the request before this one

curlVars == <<self_proxy_headers, pycurl_build, pc, args, c, is_https_via_proxy,
              wire, header_lines, header_sections, result, status_check, header_lookup,
              earlier_failed, earlier_proxy_headers>>

\* the scheme urlparse(url) reports: the text before the first ':' in lower case
\* when it is a letter followed by letters, digits, '+', '-' or '.'
SchemeChar(ch) == IsUpper(ch) \/ IsLower(ch) \/ IsDigit(ch) \/ ch \in {"+", "-", "."}
UrlScheme(url) ==
    IF ~Contains(url, ":") THEN <<>>
    ELSE LET pre == SubSeq(url, 1, IndexOf(url, ":") - 1)
         IN  IF pre # <<>> /\ (IsUpper(pre[1]) \/ IsLower(pre[1]))
                /\ \A i \in 1..Len(pre) : SchemeChar(pre[i])
             THEN Lower(pre) ELSE <<>>

\* truth value of an Optional str or Optional dict argument
Truthy(opt) == opt # None /\ opt[1] # <<>>
\* `x or {}`
OrEmpty(opt) == IF Truthy(opt) THEN opt[1] ELSE <<>>

\* MergeProxyHeaders with the instance headers applied last
MergeInstanceLast(inst, req) == IF Truthy(req) THEN DictUpdate(req[1], inst) ELSE inst

\* all_proxy_headers: the instance headers updated with the per-request ones
MergeProxyHeaders(inst, req) == IF Truthy(req) THEN DictUpdate(inst, req[1]) ELSE inst

\* the value HEADEROPT ends with once PROXYHEADER was set: 1 is HEADER_SEPARATE
SeparateOption(build) == IF build = "no_headeropt" THEN None ELSE Some(1)

NewHandle == [URL |-> None, HTTPHEADER |-> None, PROXY |-> None, PROXYHEADER |-> None,
              HEADEROPT |-> None, RESPONSE_CODE |-> None, performed |-> 0, closed |-> FALSE]

\* ConfiguredHandle with the proxy headers appended to the origin header list as well
ConfiguredHandleUnified(inst, build, url, proxy, proxy_headers, headers) ==
    LET all_proxy_headers == MergeProxyHeaders(inst, proxy_headers)
        attach == Truthy(proxy) /\ all_proxy_headers # <<>>
        origin == IF Truthy(headers) THEN HeaderList(headers[1]) ELSE <<>>
    IN  [NewHandle EXCEPT
            !.URL = Some(url),
            !.HTTPHEADER = IF attach THEN Some(origin \o HeaderList(all_proxy_headers))
                           ELSE IF Truthy(headers) THEN Some(origin) ELSE None,
            !.PROXY = IF Truthy(proxy) THEN proxy ELSE None,
            !.PROXYHEADER = IF attach THEN Some(HeaderList(all_proxy_headers)) ELSE None,
            !.HEADEROPT = IF attach THEN SeparateOption(build) ELSE None]

\* the handle after the setopt calls that precede c.perform()
ConfiguredHandle(inst, build, url, proxy, proxy_headers, headers) ==
    LET all_proxy_headers == MergeProxyHeaders(inst, proxy_headers)
        attach == Truthy(proxy) /\ all_proxy_headers # <<>>
    IN  [NewHandle EXCEPT
            !.URL = Some(url),
            !.HTTPHEADER = IF Truthy(headers) THEN Some(HeaderList(headers[1])) ELSE None,
            !.PROXY = IF Truthy(proxy) THEN proxy ELSE None,
            !.PROXYHEADER = IF attach THEN Some(HeaderList(all_proxy_headers)) ELSE None,
            !.HEADEROPT = IF attach THEN SeparateOption(build) ELSE None]

NoResult == [kind |-> "none", status_code |-> 0, headers |-> <<>>,
             proxy_headers |-> <<>>, proxy_status_code |-> None]
Raised == [NoResult EXCEPT !.kind = "error"]

\* Envelope taking the proxy section whenever there are two sections
EnvelopeIgnoringScheme(via_proxy, sections, status_code) ==
    LET tunnel == Len(sections) >= 2
    IN  [kind |-> "response",
         status_code |-> status_code,
         headers |-> IF sections # <<>> THEN sections[Len(sections)][2] ELSE <<>>,
         proxy_headers |-> IF tunnel THEN sections[1][2] ELSE <<>>,
         proxy_status_code |-> IF tunnel THEN sections[1][1] ELSE None]

\* Envelope taking the status code of the last parsed section when it has one
EnvelopeStatusFromHeaders(via_proxy, sections, status_code) ==
    LET tunnel == via_proxy /\ Len(sections) >= 2
        parsed == IF sections # <<>> THEN sections[Len(sections)][1] ELSE None
    IN  [kind |-> "response",
         status_code |-> IF parsed # None THEN parsed[1] ELSE status_code,
         headers |-> IF sections # <<>> THEN sections[Len(sections)][2] ELSE <<>>,
         proxy_headers |-> IF tunnel THEN sections[1][2] ELSE <<>>,
         proxy_status_code |-> IF tunnel THEN sections[1][1] ELSE None]

\* the ProxyResponse built from the parsed sections
Envelope(via_proxy, sections, status_code) ==
    LET tunnel == via_proxy /\ Len(sections) >= 2
    IN  [kind |-> "response",
         status_code |-> status_code,
         headers |-> IF sections # <<>> THEN sections[Len(sections)][2] ELSE <<>>,
         proxy_headers |-> IF tunnel THEN sections[1][2] ELSE <<>>,
         proxy_status_code |-> IF tunnel THEN sections[1][1] ELSE None]

KeyK == <<"X", "-", "K">>
KeyKLower == <<"x", "-", "k">>
KeyB == <<"X", "-", "B">>
UrlHttps == <<"h", "t", "t", "p", "s", ":", "/", "/", "o">>
UrlHttpsUpper == <<"H", "T", "T", "P", "S", ":", "/", "/", "o">>
UrlHttp == <<"h", "t", "t", "p", ":", "/", "/", "o">>
ProxyUrl == <<"h", "t", "t", "p", ":", "/", "/", "p">>

\* the proxy_headers given to ProxyCurl(...)
InstanceHeaderArgs == {None, Some(<<<<KeyK, <<"1">>>>, <<KeyB, <<"b">>>>>>)}
\* the proxy_headers given to request(...)
RequestHeaderArgs == {None, Some(<<<<KeyK, <<"2">>>>>>), Some(<<<<KeyKLower, <<"2">>>>>>)}
\* the headers given to request(...)
OriginHeaderArgs == {None, Some(<<<<<<"A">>, <<"o">>>>>>)}
Urls == {UrlHttps, UrlHttpsUpper, UrlHttp}
Proxies == {None, Some(ProxyUrl)}
Builds == {"named", "numeric", "no_headeropt"}
ResponseCodes == {200, 404}
\* the status codes of the runs in which the caller checks the status
StatusCodes == {0, 200, 399, 400, 404, 500}

\* ProxyResponse.raise_for_status: what the call does for a response with status_code
NotChecked == [kind |-> "not_called", message |-> <<>>]
\* RaiseForStatusOutcome with `>` for `>=`
RaiseForStatusAbove400(status_code) ==
    IF status_code > 400
    THEN [kind |-> "raised",
          message |-> <<"H", "T", "T", "P", " ", "E", "r", "r", "o", "r", " ">> \o ToDec(status_code)]
    ELSE [kind |-> "passed", message |-> <<>>]

RaiseForStatusOutcome(status_code) ==
    IF status_code >= 400
    THEN [kind |-> "raised",
          message |-> <<"H", "T", "T", "P", " ", "E", "r", "r", "o", "r", " ">> \o ToDec(status_code)]
    ELSE [kind |-> "passed", message |-> <<>>]

\* ModuleTest._check_header: the value of the first entry whose name equals header_name
\* once both are in lower case, None when there is none
NoLookup == [name |-> None, value |-> None]
\* CheckHeader comparing the names as they stand
CheckHeaderExact(headers, header_name) ==
    IF DictHas(headers, header_name) THEN Some(DictGet(headers, header_name)) ELSE None

CheckHeader(headers, header_name) ==
    LET header_lower == Lower(header_name)
        hits == {i \in 1..Len(headers) : Lower(headers[i][1]) = header_lower}
    IN  IF hits = {} THEN None
        ELSE Some(headers[CHOOSE i \in hits : \A j \in hits : i <= j][2])

InitCurl ==
    /\ \E ph \in InstanceHeaderArgs : self_proxy_headers = OrEmpty(ph)
    /\ pycurl_build \in Builds
    /\ pc = "idle"
    /\ args = [url |-> <<>>, proxy |-> None, proxy_headers |-> None, headers |-> None]
    /\ c = NewHandle
    /\ is_https_via_proxy = FALSE
    /\ wire = <<>>
    /\ header_lines = <<>>
    /\ header_sections = <<>>
    /\ result = NoResult
    /\ status_check = NotChecked
    /\ header_lookup = NoLookup
    /\ earlier_failed = FALSE
    /\ earlier_proxy_headers = None

\* RequestStart with the capture list kept from the request before
RequestStartKeepingLines(url, proxy, proxy_headers, headers) ==
    /\ pc = "idle"
    /\ pc' = "perform"
    /\ args' = [url |-> url, proxy |-> proxy, proxy_headers |-> proxy_headers,
                headers |-> headers]
    /\ c' = ConfiguredHandle(self_proxy_headers, pycurl_build, url, proxy,
                             proxy_headers, headers)
    /\ is_https_via_proxy' = (Truthy(proxy) /\ UrlScheme(url) = <<"h", "t", "t", "p", "s">>)
    /\ wire' = <<>>
    /\ header_lines' = header_lines
    /\ header_sections' = <<>>
    /\ result' = NoResult
    /\ status_check' = NotChecked
    /\ header_lookup' = NoLookup
    /\ earlier_failed' = (result.kind = "error" /\ header_lines # <<>>)
    /\ earlier_proxy_headers' = args.proxy_headers
    /\ UNCHANGED <<self_proxy_headers, pycurl_build>>

\* RequestStart with the per-request headers merged into the instance's own dict
RequestStartMergingInPlace(url, proxy, proxy_headers, headers) ==
    /\ pc = "idle"
    /\ pc' = "perform"
    /\ args' = [url |-> url, proxy |-> proxy, proxy_headers |-> proxy_headers,
                headers |-> headers]
    /\ c' = ConfiguredHandle(self_proxy_headers, pycurl_build, url, proxy,
                             proxy_headers, headers)
    /\ is_https_via_proxy' = (Truthy(proxy) /\ UrlScheme(url) = <<"h", "t", "t", "p", "s">>)
    /\ wire' = <<>>
    /\ header_lines' = <<>>
    /\ header_sections' = <<>>
    /\ result' = NoResult
    /\ status_check' = NotChecked
    /\ header_lookup' = NoLookup
    /\ earlier_failed' = (result.kind = "error" /\ header_lines # <<>>)
    /\ earlier_proxy_headers' = args.proxy_headers
    /\ self_proxy_headers' = IF Truthy(proxy) THEN MergeProxyHeaders(self_proxy_headers, proxy_headers)
                             ELSE self_proxy_headers
    /\ UNCHANGED pycurl_build

\* request(): from the call to the point where c.perform() starts
RequestStart(url, proxy, proxy_headers, headers) ==
    /\ pc = "idle"
    /\ pc' = "perform"
    /\ args' = [url |-> url, proxy |-> proxy, proxy_headers |-> proxy_headers,
                headers |-> headers]
    /\ c' = ConfiguredHandle(self_proxy_headers, pycurl_build, url, proxy,
                             proxy_headers, headers)
    /\ is_https_via_proxy' = (Truthy(proxy) /\ UrlScheme(url) = <<"h", "t", "t", "p", "s">>)
    /\ wire' = <<>>
    /\ header_lines' = <<>>
    /\ header_sections' = <<>>
    /\ result' = NoResult
    /\ status_check' = NotChecked
    /\ header_lookup' = NoLookup
    /\ earlier_failed' = (result.kind = "error" /\ header_lines # <<>>)
    /\ earlier_proxy_headers' = args.proxy_headers
    /\ UNCHANGED <<self_proxy_headers, pycurl_build>>

\* header_callback, run by the transport for each header line it receives
HeaderCallback(item, limit) ==
    /\ pc = "perform"
    /\ Len(header_lines) < limit
    /\ header_lines' = Append(header_lines, Serialize(item))
    /\ wire' = Append(wire, item)
    /\ UNCHANGED <<self_proxy_headers, pycurl_build, pc, args, c, is_https_via_proxy,
                   header_sections, result, status_check, header_lookup, earlier_failed,
                   earlier_proxy_headers>>

\* PerformReturn with a parse that takes the lines out of the capture list
PerformReturnConsuming(status_code) ==
    /\ pc = "perform"
    /\ pc' = "idle"
    /\ header_sections' = ParseHeaders(header_lines)
    /\ result' = Envelope(is_https_via_proxy, header_sections', status_code)
    /\ c' = [c EXCEPT !.performed = @ + 1, !.RESPONSE_CODE = Some(status_code),
                       !.closed = TRUE]
    /\ header_lines' = <<>>
    /\ UNCHANGED <<self_proxy_headers, pycurl_build, args, is_https_via_proxy,
                   wire, status_check, header_lookup, earlier_failed,
                   earlier_proxy_headers>>

\* c.perform() returns: the parse, the response, and the finally block
PerformReturn(status_code) ==
    /\ pc = "perform"
    /\ pc' = "idle"
    /\ header_sections' = ParseHeaders(header_lines)
    /\ result' = Envelope(is_https_via_proxy, header_sections', status_code)
    /\ c' = [c EXCEPT !.performed = @ + 1, !.RESPONSE_CODE = Some(status_code),
                       !.closed = TRUE]
    /\ UNCHANGED <<self_proxy_headers, pycurl_build, args, is_https_via_proxy,
                   wire, header_lines, status_check, header_lookup, earlier_failed,
                   earlier_proxy_headers>>

\* PerformRaise that runs the transfer again instead of letting the error out
PerformRaiseRetrying ==
    /\ pc = "perform"
    /\ pc' = "perform"
    /\ c' = [c EXCEPT !.performed = @ + 1]
    /\ UNCHANGED <<self_proxy_headers, pycurl_build, args, is_https_via_proxy,
                   wire, header_lines, header_sections, result, status_check, header_lookup,
                   earlier_failed,
                   earlier_proxy_headers>>

\* c.perform() raises pycurl.error: the finally block, then the error leaves request()
PerformRaise ==
    /\ pc = "perform"
    /\ pc' = "idle"
    /\ result' = Raised
    /\ c' = [c EXCEPT !.performed = @ + 1, !.closed = TRUE]
    /\ UNCHANGED <<self_proxy_headers, pycurl_build, args, is_https_via_proxy,
                   wire, header_lines, header_sections, status_check, header_lookup,
                   earlier_failed,
                   earlier_proxy_headers>>

\* the caller runs response.raise_for_status() on the ProxyResponse it was returned
RaiseForStatus ==
    /\ pc = "idle" /\ result.kind = "response"
    /\ status_check' = RaiseForStatusOutcome(result.status_code)
    /\ UNCHANGED <<self_proxy_headers, pycurl_build, pc, args, c, is_https_via_proxy,
                   wire, header_lines, header_sections, result, header_lookup,
                   earlier_failed,
                   earlier_proxy_headers>>

\* the caller runs _check_header(response.headers, header_name)
CheckHeaderCall(header_name) ==
    /\ pc = "idle" /\ result.kind = "response"
    /\ header_lookup' = [name |-> Some(header_name),
                         value |-> CheckHeader(result.headers, header_name)]
    /\ UNCHANGED <<self_proxy_headers, pycurl_build, pc, args, c, is_https_via_proxy,
                   wire, header_lines, header_sections, result, status_check,
                   earlier_failed,
                   earlier_proxy_headers>>

\* ------------------------------------------------------------------ cloudscraper
VARIABLES
    binding,                 \* which client was constructed: "cloudscraper" or "autoscraper"
    scraper_proxy_headers,   \* ProxyCloudScraper._proxy_headers
    generation,              \* how many times set_proxy_headers has remounted the adapters
    adapters,                \* the adapter mounted on each prefix: _proxy_headers, proxy_manager
    managers,                \* the managers the mounted adapters have constructed
    last,                    \* what the last proxy_manager_for call was given and returned
    threads                  \* the position of each concurrent proxy_manager_for caller

cloudVars == <<binding, scraper_proxy_headers, generation, adapters, managers, last>>
threadVars == <<threads>>

KeyAuth == <<"P", "r", "o", "x", "y", "-", "A", "u", "t", "h", "o", "r", "i", "z", "a", "t",
             "i", "o", "n">>
PHttp == <<"h", "t", "t", "p", ":", "/", "/", "p">>
PAuth == <<"h", "t", "t", "p", ":", "/", "/", "u", ":", "w", "@", "p">>
PSocks == <<"S", "O", "C", "K", "S", "5", ":", "/", "/", "p">>
CloudProxyUrls == {PHttp, PAuth, PSocks}
Prefixes == {"https://", "http://"}
\* the proxy_headers given to ProxyCloudScraper(...) and to set_proxy_headers(...)
CloudHeaderArgs == {None,
                    Some(<<<<KeyK, <<"1">>>>>>),
                    Some(<<<<KeyAuth, <<"c">>>>, <<KeyK, <<"2">>>>>>)}

\* the last index of ch in s, for a ch that occurs in s
LastIndexOf(s, ch) == CHOOSE i \in 1..Len(s) : s[i] = ch /\ \A j \in (i + 1)..Len(s) : s[j] # ch

\* urlparse(url).netloc: the text between "//" and the next "/"
Netloc(url) ==
    IF ~Contains(url, ":") THEN <<>>
    ELSE LET i == IndexOf(url, ":")
             rest == SubSeq(url, i + 3, Len(url))
         IN  IF Len(url) < i + 2 \/ url[i + 1] # "/" \/ url[i + 2] # "/" THEN <<>>
             ELSE IF Contains(rest, "/") THEN SubSeq(rest, 1, IndexOf(rest, "/") - 1)
             ELSE rest

\* get_auth_from_url: <<username, password>>, or <<"", "">> when either is missing
AuthFromUrl(url) ==
    LET netloc == Netloc(url)
        userinfo == IF Contains(netloc, "@") THEN SubSeq(netloc, 1, LastIndexOf(netloc, "@") - 1)
                    ELSE <<>>
    IN  IF Contains(netloc, "@") /\ Contains(userinfo, ":")
        THEN <<SubSeq(userinfo, 1, IndexOf(userinfo, ":") - 1),
               SubSeq(userinfo, IndexOf(userinfo, ":") + 1, Len(userinfo))>>
        ELSE <<<<>>, <<>>>>

\* _basic_auth_str(username, password); the base64 text is kept as its payload
BasicAuth(username, password) ==
    <<"B", "a", "s", "i", "c", " ">> \o username \o <<":">> \o password

\* self.proxy_headers(proxy): Proxy-Authorization when the URL carries a username
StandardProxyHeaders(proxy) ==
    LET auth == AuthFromUrl(proxy)
    IN  IF auth[1] # <<>> THEN <<<<KeyAuth, BasicAuth(auth[1], auth[2])>>>> ELSE <<>>

\* ManagerHeaders with the standard headers applied last
ManagerHeadersStandardLast(custom, proxy) == DictUpdate(custom, StandardProxyHeaders(proxy))

\* _proxy_headers as given to proxy_from_url: the standard headers updated with the
\* adapter's custom ones
ManagerHeaders(custom, proxy) ==
    IF custom # <<>> THEN DictUpdate(StandardProxyHeaders(proxy), custom)
    ELSE StandardProxyHeaders(proxy)

\* IsSocks without the lower()
IsSocksCaseSensitive(proxy) == StartsWith(proxy, <<"s", "o", "c", "k", "s">>)

\* proxy.lower().startswith("socks")
IsSocks(proxy) == StartsWith(Lower(proxy), <<"s", "o", "c", "k", "s">>)

\* CipherSuiteProxyHeaderAdapter(proxy_headers=...): an adapter with an empty cache
NewAdapter(proxy_headers) == [proxy_headers |-> OrEmpty(proxy_headers), proxy_manager |-> <<>>]

\* the identity of the next manager built for (prefix, proxy) in this generation
NewManagerId(mgrs, gen, prefix, proxy) ==
    <<gen, prefix, proxy,
      Cardinality({m \in mgrs : m.id[1] = gen /\ m.id[2] = prefix /\ m.id[3] = proxy}) + 1>>

Manager(id, kind, proxy_headers, built_under) ==
    [id |-> id, kind |-> kind, proxy_headers |-> proxy_headers, built_under |-> built_under]

\* what one proxy_manager_for call leaves: the adapter's cache, the managers built,
\* how the call ended ("hit", "created", "default", "raised") and the manager returned
Outcome(cache, built, how, manager) ==
    [cache |-> cache, built |-> built, how |-> how, manager |-> manager]

\* `proxy in self.proxy_manager`
CacheHit(adapter, proxy) == DictHas(adapter.proxy_manager, proxy)

\* `manager = self.proxy_manager[proxy]`
HitOutcome(adapter, proxy) ==
    Outcome(adapter.proxy_manager, {}, "hit", Some(DictGet(adapter.proxy_manager, proxy)))

\* super().proxy_manager_for(proxy) for a SOCKS proxy: the transport's own SOCKS
\* manager, built without proxy headers and cached under the proxy URL
DefaultOutcome(adapter, mgrs, gen, prefix, proxy) ==
    LET id == NewManagerId(mgrs, gen, prefix, proxy)
    IN  Outcome(DictSet(adapter.proxy_manager, proxy, id),
                {Manager(id, "socks", None, adapter.proxy_headers)}, "default", Some(id))

\* CreateOutcome that reserves the cache entry before the manager is built
CreateOutcomeReserving(adapter, mgrs, gen, prefix, proxy, ok) ==
    LET id == NewManagerId(mgrs, gen, prefix, proxy)
    IN  IF ok
        THEN Outcome(DictSet(adapter.proxy_manager, proxy, id),
                     {Manager(id, "header", Some(ManagerHeaders(adapter.proxy_headers, proxy)),
                              adapter.proxy_headers)},
                     "created", Some(id))
        ELSE Outcome(DictSet(adapter.proxy_manager, proxy, id), {}, "raised", None)

\* the else branch: proxy_from_url with the merged headers, stored in the cache when
\* it returns a manager (ok), the cache untouched when it raises
CreateOutcome(adapter, mgrs, gen, prefix, proxy, ok) ==
    LET id == NewManagerId(mgrs, gen, prefix, proxy)
    IN  IF ok
        THEN Outcome(DictSet(adapter.proxy_manager, proxy, id),
                     {Manager(id, "header", Some(ManagerHeaders(adapter.proxy_headers, proxy)),
                              adapter.proxy_headers)},
                     "created", Some(id))
        ELSE Outcome(adapter.proxy_manager, {}, "raised", None)

\* ProxyManagerForOutcome without the cache lookup
ProxyManagerForUncached(adapter, mgrs, gen, prefix, proxy, ok) ==
    IF IsSocks(proxy) THEN DefaultOutcome(adapter, mgrs, gen, prefix, proxy)
    ELSE CreateOutcome(adapter, mgrs, gen, prefix, proxy, ok)

\* CipherSuiteProxyHeaderAdapter.proxy_manager_for, run without interruption
ProxyManagerForOutcome(adapter, mgrs, gen, prefix, proxy, ok) ==
    IF CacheHit(adapter, proxy) THEN HitOutcome(adapter, proxy)
    ELSE IF IsSocks(proxy) THEN DefaultOutcome(adapter, mgrs, gen, prefix, proxy)
    ELSE CreateOutcome(adapter, mgrs, gen, prefix, proxy, ok)

NoCall == [generation |-> 0, prefix |-> "", proxy |-> <<>>, how |-> "none", manager |-> None,
           cached_before |-> FALSE, raised_before |-> FALSE]

\* the two adapters ProxyCloudScraper mounts, each with the scraper's headers
MountedAdapters(proxy_headers) == [p \in Prefixes |-> NewAdapter(proxy_headers)]

InitCloud ==
    /\ binding \in {"cloudscraper", "autoscraper"}
    /\ \E ph \in CloudHeaderArgs :
          /\ scraper_proxy_headers = Some(OrEmpty(ph))
          /\ adapters = MountedAdapters(Some(OrEmpty(ph)))
    /\ generation = 0
    /\ managers = {}
    /\ last = NoCall

\* a request of the scraper whose URL matches prefix and whose proxy is proxy: the
\* session picks the adapter mounted on prefix, which calls proxy_manager_for(proxy)
ProxyManagerFor(prefix, proxy, ok) ==
    /\ binding = "cloudscraper"
    /\ LET out == ProxyManagerForOutcome(adapters[prefix], managers, generation,
                                         prefix, proxy, ok)
       IN  /\ adapters' = [adapters EXCEPT ![prefix].proxy_manager = out.cache]
           /\ managers' = managers \cup out.built
           /\ last' = [generation |-> generation, prefix |-> prefix, proxy |-> proxy,
                       how |-> out.how, manager |-> out.manager,
                       cached_before |-> DictHas(adapters[prefix].proxy_manager, proxy),
                       raised_before |-> (last.how = "raised" /\ last.prefix = prefix
                                          /\ last.proxy = proxy
                                          /\ last.generation = generation)]
    /\ UNCHANGED <<binding, scraper_proxy_headers, generation>>

\* SetProxyHeaders that rewrites the headers of the mounted adapters and of their
\* cached managers and keeps the caches
SetProxyHeadersInPlace(proxy_headers) ==
    /\ binding = "cloudscraper"
    /\ scraper_proxy_headers' = proxy_headers
    /\ adapters' = [p \in Prefixes |-> [adapters[p] EXCEPT !.proxy_headers = OrEmpty(proxy_headers)]]
    /\ managers' = {[m EXCEPT !.built_under = OrEmpty(proxy_headers),
                              !.proxy_headers = IF m.kind = "header"
                                                THEN Some(ManagerHeaders(OrEmpty(proxy_headers), m.id[3]))
                                                ELSE None] : m \in managers}
    /\ generation' = generation + 1
    /\ UNCHANGED <<binding, last>>

\* ProxyCloudScraper.set_proxy_headers: two new adapters replace the mounted ones; the
\* replaced adapters and the managers they cached are no longer reachable
SetProxyHeaders(proxy_headers) ==
    /\ binding = "cloudscraper"
    /\ scraper_proxy_headers' = proxy_headers
    /\ adapters' = MountedAdapters(proxy_headers)
    /\ managers' = {}
    /\ generation' = generation + 1
    /\ UNCHANGED <<binding, last>>

\* ------------------------------------------------------------------ concurrent callers
\* callers of proxy_manager_for on the adapter mounted on https://
NumThreads == 2
Threads == 1..NumThreads
ThreadPrefix == "https://"

ThreadState(at, proxy, how, manager) ==
    [at |-> at, proxy |-> proxy, how |-> how, manager |-> manager]

InitThreads == threads = [t \in Threads |-> ThreadState("idle", <<>>, "none", None)]

\* thread t enters proxy_manager_for(proxy) and runs the if/elif tests: a cache hit and
\* a SOCKS proxy return at once, anything else goes on to the else branch
ThreadCall(t, proxy) ==
    /\ binding = "cloudscraper"
    /\ threads[t].at = "idle"
    /\ LET adapter == adapters[ThreadPrefix]
       IN  IF CacheHit(adapter, proxy) \/ IsSocks(proxy)
           THEN LET out == IF CacheHit(adapter, proxy) THEN HitOutcome(adapter, proxy)
                           ELSE DefaultOutcome(adapter, managers, generation,
                                               ThreadPrefix, proxy)
                IN  /\ adapters' = [adapters EXCEPT ![ThreadPrefix].proxy_manager = out.cache]
                    /\ managers' = managers \cup out.built
                    /\ threads' = [threads EXCEPT
                                      ![t] = ThreadState("done", proxy, out.how, out.manager)]
           ELSE /\ threads' = [threads EXCEPT ![t] = ThreadState("else", proxy, "none", None)]
                /\ UNCHANGED <<adapters, managers>>
    /\ UNCHANGED <<binding, scraper_proxy_headers, generation, last>>

\* thread t runs the else branch it had reached and returns
ThreadCreate(t, ok) ==
    /\ binding = "cloudscraper"
    /\ threads[t].at = "else"
    /\ LET out == CreateOutcome(adapters[ThreadPrefix], managers, generation, ThreadPrefix,
                                threads[t].proxy, ok)
       IN  /\ adapters' = [adapters EXCEPT ![ThreadPrefix].proxy_manager = out.cache]
           /\ managers' = managers \cup out.built
           /\ threads' = [threads EXCEPT
                             ![t] = ThreadState("done", threads[t].proxy, out.how, out.manager)]
    /\ UNCHANGED <<binding, scraper_proxy_headers, generation, last>>

\* ------------------------------------------------------------------ autoscraper
VARIABLES
    auto_proxy_headers,   \* ProxyAutoScraper._proxy_headers
    auto_session,         \* ProxyAutoScraper._session: none, or the number of a session
    sessions,             \* every ProxySession constructed: the headers it got, closed or not
    last_session          \* the session _get_session returned since the last update or close

autoVars == <<auto_proxy_headers, auto_session, sessions, last_session>>

\* ProxySession objects one scraper may construct
MaxSessions == 3

InitAuto ==
    /\ \E ph \in CloudHeaderArgs : auto_proxy_headers = Some(OrEmpty(ph))
    /\ auto_session = None
    /\ sessions = <<>>
    /\ last_session = None

\* ProxyAutoScraper._get_session, as every request of the scraper calls it
GetSession ==
    /\ binding = "autoscraper"
    /\ IF auto_session = None
       THEN /\ Len(sessions) < MaxSessions
            /\ sessions' = Append(sessions, [proxy_headers |-> auto_proxy_headers,
                                             closed |-> FALSE])
            /\ auto_session' = Some(Len(sessions) + 1)
       ELSE UNCHANGED <<sessions, auto_session>>
    /\ last_session' = auto_session'
    /\ UNCHANGED auto_proxy_headers

\* the session close() of set_proxy_headers and close
CloseHeldSession ==
    IF auto_session = None THEN sessions
    ELSE [sessions EXCEPT ![auto_session[1]].closed = TRUE]

\* SetAutoProxyHeaders that keeps the session it holds
SetAutoProxyHeadersKeeping(proxy_headers) ==
    /\ binding = "autoscraper"
    /\ auto_proxy_headers' = proxy_headers
    /\ UNCHANGED <<sessions, auto_session, last_session>>

\* ProxyAutoScraper.set_proxy_headers
SetAutoProxyHeaders(proxy_headers) ==
    /\ binding = "autoscraper"
    /\ auto_proxy_headers' = proxy_headers
    /\ sessions' = CloseHeldSession
    /\ auto_session' = None
    /\ last_session' = None

\* ProxyAutoScraper.close
CloseAuto ==
    /\ binding = "autoscraper"
    /\ sessions' = CloseHeldSession
    /\ auto_session' = None
    /\ last_session' = None
    /\ UNCHANGED auto_proxy_headers

\* ------------------------------------------------------------------ test harness
\* command line arguments after the program name in the runs over every argument list
MaxArgs == 2

VARIABLES
    sys_argv,       \* sys.argv[1:]
    environ,        \* os.environ: the variables the harness reads, unset ones are None
    harness_pc,     \* where main is: "none", "start", "running", or the way it exited
    verbose,        \* main's verbose flag
    test_names,     \* main's test_names: None or the module names of the command line
    config,         \* main's config: None until TestConfig.from_env returned
    results,        \* run_tests's results list
    probes,         \* the test.test(config) calls made, with the call into the binding
    exit_code       \* the code passed to sys.exit, None while running

harnessVars == <<sys_argv, environ, harness_pc, verbose, test_names, config, results,
                 probes, exit_code>>

\* the options main looks for
Flag ==
    [v |-> <<"-", "v">>, verbose |-> <<"-", "-", "v", "e", "r", "b", "o", "s", "e">>,
     h |-> <<"-", "h">>, help |-> <<"-", "-", "h", "e", "l", "p">>,
     l |-> <<"-", "l">>, list |-> <<"-", "-", "l", "i", "s", "t">>]

\* the keys of AVAILABLE_TESTS in insertion order; each test class's name is its key
AVAILABLE_TESTS ==
    << <<"u", "r", "l", "l", "i", "b", "3">>,
       <<"r", "e", "q", "u", "e", "s", "t", "s">>,
       <<"a", "i", "o", "h", "t", "t", "p">>,
       <<"h", "t", "t", "p", "x">>,
       <<"p", "y", "c", "u", "r", "l">>,
       <<"a", "u", "t", "o", "s", "c", "r", "a", "p", "e", "r">> >>

list_available_tests == AVAILABLE_TESTS

\* get_test: the test registered under name.lower(), or None
get_test(name) ==
    IF \E i \in 1..Len(AVAILABLE_TESTS) : AVAILABLE_TESTS[i] = Lower(name)
    THEN Some(Lower(name))
    ELSE None

\* list.remove(x) guarded by x in list: drops the first occurrence
RemoveFirst(s, x) ==
    IF ~Contains(s, x) THEN s
    ELSE SubSeq(s, 1, IndexOf(s, x) - 1) \o SubSeq(s, IndexOf(s, x) + 1, Len(s))

\* main's handling of -v and --verbose
ParseVerbose(argv) ==
    [verbose |-> Contains(argv, Flag.v) \/ Contains(argv, Flag.verbose),
     rest    |-> RemoveFirst(RemoveFirst(argv, Flag.v), Flag.verbose)]

\* the first truthy of PROXY_URL, HTTPS_PROXY and https_proxy, else the last of them
EnvProxyUrl(env) ==
    IF Truthy(env.PROXY_URL) THEN env.PROXY_URL
    ELSE IF Truthy(env.HTTPS_PROXY) THEN env.HTTPS_PROXY
    ELSE env.https_proxy

\* TestConfig.from_env once a proxy URL was found
from_env(env) ==
    [proxy_url         |-> EnvProxyUrl(env)[1],
     send_proxy_header |-> env.SEND_PROXY_HEADER,
     send_proxy_value  |-> env.SEND_PROXY_VALUE]

\* TestConfig.proxy_headers_to_send that needs only one of the two to be set
ProxyHeadersToSendEither(cfg) ==
    IF Truthy(cfg.send_proxy_header) \/ Truthy(cfg.send_proxy_value)
    THEN <<<<OrEmpty(cfg.send_proxy_header), OrEmpty(cfg.send_proxy_value)>>>>
    ELSE <<>>

\* TestConfig.proxy_headers_to_send
proxy_headers_to_send(cfg) ==
    IF Truthy(cfg.send_proxy_header) /\ Truthy(cfg.send_proxy_value)
    THEN <<<<cfg.send_proxy_header[1], cfg.send_proxy_value[1]>>>>
    ELSE <<>>

TestResult(module_name, success, header_value, error) ==
    [module_name |-> module_name, success |-> success, header_value |-> header_value,
     error |-> error]

\* what the network and the installed packages make of one probe: the import fails, the
\* request raises, or the response carries the header with a value, with an empty value,
\* or not at all
ProbeOutcomes == {"ImportError", "Exception", "found", "empty", "missing"}

\* ModuleTest.test of every registered class: the try block and its two handlers;
\* header_value is what _check_header returns on the probe's response
ModuleTest(name, cfg, outcome) ==
    LET header_value == CASE outcome = "found" -> Some(<<"1">>)
                          [] outcome = "empty" -> Some(<<>>)
                          [] OTHER -> None
    IN  IF outcome = "ImportError" THEN TestResult(name, FALSE, None, "Import error")
        ELSE IF outcome = "Exception" THEN TestResult(name, FALSE, None, "Exception")
        ELSE IF Truthy(header_value)
             THEN TestResult(name, TRUE, header_value, "")
             ELSE TestResult(name, FALSE, None, "not found")

\* the call a probe makes into its binding: none when the import failed
BindingCall(cfg, outcome) ==
    IF outcome = "ImportError" THEN None
    ELSE Some([proxy |-> cfg.proxy_url,
               proxy_headers |-> IF proxy_headers_to_send(cfg) # <<>>
                                 THEN Some(proxy_headers_to_send(cfg)) ELSE None])

\* the names run_tests iterates over
RunTestsNames(names) ==
    IF names = None \/ Len(names[1]) = 0 THEN list_available_tests ELSE names[1]

\* print_results that passes when any test passed
PrintResultsAnyPassed(rs) == Cardinality({i \in 1..Len(rs) : rs[i].success}) > 0

\* print_results: False when a result failed
print_results(rs) == ~(Cardinality({i \in 1..Len(rs) : ~rs[i].success}) > 0)

\* sys.exit(code) at the place named by how
Exit(how, code) ==
    /\ harness_pc' = how
    /\ exit_code' = Some(code)

\* main up to the call of run_tests
Main ==
    /\ harness_pc = "start"
    /\ verbose' = ParseVerbose(sys_argv).verbose
    /\ UNCHANGED <<sys_argv, environ, results, probes>>
    /\ LET names == ParseVerbose(sys_argv).rest
       IN  IF Contains(names, Flag.help) \/ Contains(names, Flag.h)
           THEN Exit("help", 0) /\ UNCHANGED <<test_names, config>>
           ELSE IF Contains(names, Flag.list) \/ Contains(names, Flag.l)
           THEN Exit("list", 0) /\ UNCHANGED <<test_names, config>>
           ELSE /\ test_names' = IF names # <<>> THEN Some(names) ELSE None
                /\ IF ~Truthy(EnvProxyUrl(environ))
                   THEN Exit("no_proxy", 1) /\ UNCHANGED config
                   ELSE /\ config' = Some(from_env(environ))
                        /\ harness_pc' = "running"
                        /\ UNCHANGED exit_code

\* run_tests's loop body that lets a probe's exception escape
RunTestAborting(outcome) ==
    /\ harness_pc = "running"
    /\ Len(results) < Len(RunTestsNames(test_names))
    /\ UNCHANGED <<sys_argv, environ, verbose, test_names, config>>
    /\ LET name == RunTestsNames(test_names)[Len(results) + 1]
           test == get_test(name)
       IN  IF test = None
           THEN /\ results' = Append(results, TestResult(name, FALSE, None, "Unknown module"))
                /\ UNCHANGED <<probes, harness_pc, exit_code>>
           ELSE /\ probes' = Append(probes, [module |-> test[1], outcome |-> outcome,
                                             call |-> BindingCall(config[1], outcome)])
                /\ IF outcome \in {"ImportError", "Exception"}
                   THEN Exit("failed", 1) /\ UNCHANGED results
                   ELSE /\ results' = Append(results, ModuleTest(test[1], config[1], outcome))
                        /\ UNCHANGED <<harness_pc, exit_code>>

\* one iteration of run_tests's loop
RunTest(outcome) ==
    /\ harness_pc = "running"
    /\ Len(results) < Len(RunTestsNames(test_names))
    /\ UNCHANGED <<sys_argv, environ, harness_pc, verbose, test_names, config, exit_code>>
    /\ LET name == RunTestsNames(test_names)[Len(results) + 1]
           test == get_test(name)
       IN  IF test = None
           THEN /\ results' = Append(results, TestResult(name, FALSE, None, "Unknown module"))
                /\ UNCHANGED probes
           ELSE /\ results' = Append(results, ModuleTest(test[1], config[1], outcome))
                /\ probes' = Append(probes, [module |-> test[1], outcome |-> outcome,
                                             call |-> BindingCall(config[1], outcome)])

\* run_tests returns, print_results, sys.exit
Finish ==
    /\ harness_pc = "running"
    /\ Len(results) = Len(RunTestsNames(test_names))
    /\ Exit("done", IF print_results(results) THEN 0 ELSE 1)
    /\ UNCHANGED <<sys_argv, environ, verbose, test_names, config, results, probes>>

\* KeyboardInterrupt during run_tests or print_results: no probe catches it
KeyboardInterrupt ==
    /\ harness_pc = "running"
    /\ Exit("interrupted", 130)
    /\ UNCHANGED <<sys_argv, environ, verbose, test_names, config, results, probes>>

\* any other exception that escapes run_tests or print_results
UnexpectedError ==
    /\ harness_pc = "running"
    /\ Exit("failed", 1)
    /\ UNCHANGED <<sys_argv, environ, verbose, test_names, config, results, probes>>

EnvUnset ==
    [PROXY_URL |-> None, HTTPS_PROXY |-> None, https_proxy |-> None,
     SEND_PROXY_HEADER |-> None, SEND_PROXY_VALUE |-> None]

\* the harness process does not run
InitNotInvoked ==
    /\ sys_argv = <<>> /\ environ = EnvUnset /\ harness_pc = "none" /\ verbose = FALSE
    /\ test_names = None /\ config = None /\ results = <<>> /\ probes = <<>>
    /\ exit_code = None

\* the harness process starts with a command line and an environment
InitInvoked(argvs, envs) ==
    /\ sys_argv \in argvs /\ environ \in envs /\ harness_pc = "start" /\ verbose = FALSE
    /\ test_names = None /\ config = None /\ results = <<>> /\ probes = <<>>
    /\ exit_code = None

\* ------------------------------------------------------------------ specifications
vars == <<curlVars, cloudVars, threadVars, autoVars, harnessVars>>

Init == InitCurl /\ InitCloud /\ InitThreads /\ InitAuto /\ InitNotInvoked

\* set_proxy_headers calls on one ProxyCloudScraper
MaxUpdates == 1

\* the clients: requests and header updates of a ProxyCloudScraper or a ProxyAutoScraper
InitClients ==
    /\ Init
    /\ self_proxy_headers = <<>> /\ pycurl_build = "named"
    /\ binding = "cloudscraper" => auto_proxy_headers = Some(<<>>)
    /\ binding = "autoscraper" => scraper_proxy_headers = Some(<<>>)

NextClients ==
    \/ /\ \E prefix \in Prefixes, proxy \in CloudProxyUrls, ok \in BOOLEAN :
             ProxyManagerFor(prefix, proxy, ok)
       /\ UNCHANGED <<curlVars, threadVars, autoVars, harnessVars>>
    \/ /\ generation < MaxUpdates
       /\ \E ph \in CloudHeaderArgs : SetProxyHeaders(ph)
       /\ UNCHANGED <<curlVars, threadVars, autoVars, harnessVars>>
    \/ GetSession /\ UNCHANGED <<curlVars, cloudVars, threadVars, harnessVars>>
    \/ /\ \E ph \in CloudHeaderArgs : SetAutoProxyHeaders(ph)
       /\ UNCHANGED <<curlVars, cloudVars, threadVars, harnessVars>>
    \/ CloseAuto /\ UNCHANGED <<curlVars, cloudVars, threadVars, harnessVars>>

SpecClients == InitClients /\ [][NextClients]_vars

\* concurrent proxy_manager_for callers on one adapter
InitConcurrent ==
    /\ Init
    /\ self_proxy_headers = <<>> /\ pycurl_build = "named"
    /\ binding = "cloudscraper" /\ auto_proxy_headers = Some(<<>>)

NextConcurrent ==
    \/ /\ \E t \in Threads, proxy \in CloudProxyUrls : ThreadCall(t, proxy)
       /\ UNCHANGED <<curlVars, autoVars, harnessVars>>
    \/ /\ \E t \in Threads, ok \in BOOLEAN : ThreadCreate(t, ok)
       /\ UNCHANGED <<curlVars, autoVars, harnessVars>>

SpecConcurrent == InitConcurrent /\ [][NextConcurrent]_vars

\* the pycurl binding alone
InitPycurl ==
    /\ Init
    /\ binding = "cloudscraper"
    /\ scraper_proxy_headers = Some(<<>>) /\ auto_proxy_headers = Some(<<>>)

\* requests of every argument shape over a few header lines
NextCurl ==
    /\ UNCHANGED <<cloudVars, threadVars, autoVars, harnessVars>>
    /\ \/ \E url \in Urls, proxy \in Proxies, ph \in RequestHeaderArgs, h \in OriginHeaderArgs :
             RequestStart(url, proxy, ph, h)
       \/ \E item \in CurlItems : HeaderCallback(item, MaxCurlLines)
       \/ \E code \in ResponseCodes : PerformReturn(code)
       \/ PerformRaise

SpecCurl == InitPycurl /\ [][NextCurl]_vars

\* requests with and without a proxy, to http and https targets, over several blocks
InitResponse == InitPycurl /\ pycurl_build = "named"

NextResponse ==
    /\ UNCHANGED <<cloudVars, threadVars, autoVars, harnessVars>>
    /\ \/ \E url \in Urls, proxy \in Proxies : RequestStart(url, proxy, None, None)
       \/ \E item \in ResponseItems : HeaderCallback(item, MaxResponseLines)
       \/ \E code \in ResponseCodes : PerformReturn(code)
       \/ PerformRaise

SpecResponse == InitResponse /\ [][NextResponse]_vars

\* one shape of request over header lines of every kind
InitParser == InitPycurl /\ self_proxy_headers = <<>> /\ pycurl_build = "named"

NextParser ==
    /\ UNCHANGED <<cloudVars, threadVars, autoVars, harnessVars>>
    /\ \/ RequestStart(UrlHttps, Some(ProxyUrl), None, None)
       \/ \E item \in ParserItems : HeaderCallback(item, MaxLines)
       \/ PerformReturn(200)

SpecParser == InitParser /\ [][NextParser]_vars

\* status checks by the caller on responses of every status code
InitStatus == InitParser

NextStatus ==
    /\ UNCHANGED <<cloudVars, threadVars, autoVars, harnessVars>>
    /\ \/ \E url \in Urls, proxy \in Proxies : RequestStart(url, proxy, None, None)
       \/ \E item \in CurlItems : HeaderCallback(item, MaxCurlLines)
       \/ \E code \in StatusCodes : PerformReturn(code)
       \/ PerformRaise
       \/ RaiseForStatus

SpecStatus == InitStatus /\ [][NextStatus]_vars

\* header lookups by the caller on the responses of one shape of request
InitLookup == InitParser

NextLookup ==
    /\ UNCHANGED <<cloudVars, threadVars, autoVars, harnessVars>>
    /\ \/ RequestStart(UrlHttps, Some(ProxyUrl), None, None)
       \/ \E item \in LookupItems : HeaderCallback(item, MaxLookupLines)
       \/ PerformReturn(200)
       \/ PerformRaise
       \/ \E name \in LookupNames : CheckHeaderCall(name)

SpecLookup == InitLookup /\ [][NextLookup]_vars

\* the values the environment variables have when they are set to something
EnvSet ==
    [PROXY_URL |-> <<"h", "t", "t", "p", ":", "/", "/", "a">>,
     HTTPS_PROXY |-> <<"h", "t", "t", "p", ":", "/", "/", "b">>,
     https_proxy |-> <<"h", "t", "t", "p", ":", "/", "/", "c">>,
     SEND_PROXY_HEADER |-> <<"X", "-", "C">>,
     SEND_PROXY_VALUE |-> <<"U", "S">>]

\* command lines of options, registered names (one in mixed case) and an unknown name
ArgLists ==
    UNION {[1..n -> {Flag.v, Flag.verbose, Flag.h, Flag.help, Flag.l, Flag.list,
                     AVAILABLE_TESTS[5], <<"P", "y", "c", "U", "R", "L">>,
                     AVAILABLE_TESTS[4], <<"c", "u", "r", "l">>}] : n \in 0..MaxArgs}

\* the library state the harness runs beside
InitBesideHarness ==
    /\ InitCurl /\ InitCloud /\ InitThreads /\ InitAuto
    /\ binding = "cloudscraper"
    /\ scraper_proxy_headers = Some(<<>>) /\ auto_proxy_headers = Some(<<>>)
    /\ self_proxy_headers = <<>> /\ pycurl_build = "named"

\* the test harness run on every short command line, with and without a proxy URL
InitHarness ==
    /\ InitBesideHarness
    /\ InitInvoked(ArgLists, {EnvUnset, [EnvUnset EXCEPT !.PROXY_URL = Some(EnvSet.PROXY_URL)]})

NextHarness ==
    /\ UNCHANGED <<curlVars, cloudVars, threadVars, autoVars>>
    /\ \/ Main
       \/ \E outcome \in ProbeOutcomes : RunTest(outcome)
       \/ Finish
       \/ KeyboardInterrupt
       \/ UnexpectedError

SpecHarness == InitHarness /\ [][NextHarness]_vars

\* the test harness run on a few command lines in every environment: each variable
\* unset, empty or set
InitConfig ==
    /\ InitBesideHarness
    /\ InitInvoked({<<AVAILABLE_TESTS[5]>>, <<Flag.v, AVAILABLE_TESTS[4]>>, <<Flag.list>>},
                   [PROXY_URL : {None, Some(<<>>), Some(EnvSet.PROXY_URL)},
                    HTTPS_PROXY : {None, Some(<<>>), Some(EnvSet.HTTPS_PROXY)},
                    https_proxy : {None, Some(<<>>), Some(EnvSet.https_proxy)},
                    SEND_PROXY_HEADER : {None, Some(<<>>), Some(EnvSet.SEND_PROXY_HEADER)},
                    SEND_PROXY_VALUE : {None, Some(<<>>), Some(EnvSet.SEND_PROXY_VALUE)}])

SpecConfig == InitConfig /\ [][NextHarness]_vars

\* ------------------------------------------------------------------ claims
\* a request call has returned a ProxyResponse
Returned == pc = "idle" /\ result.kind = "response"

IsStatusItem(it) == it.kind = "status"
IsHeaderItem(it) == it.kind = "header"
StatusPositions(w) == {i \in 1..Len(w) : IsStatusItem(w[i])}
\* the position of the n-th status item of w
BlockStart(w, n) ==
    CHOOSE i \in StatusPositions(w) : Cardinality({j \in StatusPositions(w) : j < i}) = n - 1
\* the position after the last item of the n-th block of w
BlockEnd(w, n) == IF n = Cardinality(StatusPositions(w)) THEN Len(w) + 1 ELSE BlockStart(w, n + 1)
\* the header entries the n-th block of w carries, in wire order
BlockHeaders(w, n) ==
    LET hs == SelectSeq(SubSeq(w, BlockStart(w, n) + 1, BlockEnd(w, n) - 1), IsHeaderItem)
    IN  [i \in 1..Len(hs) |-> <<hs[i].a, hs[i].b>>]
\* w is k >= 1 well-formed blocks: status lines with a non-zero code, each followed
\* by its header lines with distinct names, blank lines anywhere
WellFormedBlocks(w) ==
    /\ StatusPositions(w) # {}
    /\ \A i \in 1..Len(w) : w[i].kind \in {"status", "header", "blank"}
    /\ \A i \in StatusPositions(w) : w[i].code # 0
    /\ \A i \in 1..Len(w) : IsHeaderItem(w[i]) => \E j \in StatusPositions(w) : j < i
    /\ \A i, j \in 1..Len(w) :
          (i < j /\ IsHeaderItem(w[i]) /\ IsHeaderItem(w[j]) /\ w[i].a = w[j].a)
              => \E m \in StatusPositions(w) : i < m /\ m < j
\* the sections the blocks of w stand for
BlockSections(w) ==
    [n \in 1..Cardinality(StatusPositions(w)) |->
        <<Some(w[BlockStart(w, n)].code), BlockHeaders(w, n)>>]

\* C1: a capture buffer of k >= 1 well-formed blocks parses to exactly k sections in
\* wire order, section i carrying block i's status code and exactly block i's headers.
C1_WellFormedBlocksParse ==
    (Returned /\ WellFormedBlocks(wire)) => header_sections = BlockSections(wire)

\* two blocks, each with a header of its own, have been parsed
C1_Witness ==
    /\ Returned /\ WellFormedBlocks(wire)
    /\ Len(header_sections) = 2
    /\ header_sections[1] = <<Some(200), <<<<NameA, <<"1">>>>>>>>
    /\ header_sections[2] = <<Some(407), <<<<NameB, <<"2">>>>>>>>

\* the request was an https request through a proxy
HttpsViaProxy ==
    /\ args.proxy # None /\ args.proxy[1] # <<>>
    /\ args.url \in {UrlHttps, UrlHttpsUpper}

\* C2: the response reports a proxy section (status and headers of section[0], origin
\* headers of the last section) exactly when the request was https through a proxy and
\* the parse gave at least 2 sections; otherwise proxy_status_code is none,
\* proxy_headers is empty and the origin headers are the last section's, or empty.
C2_ProxySectionReported ==
    Returned =>
        LET n == Len(header_sections)
        IN  IF HttpsViaProxy /\ n >= 2
            THEN /\ result.proxy_status_code = header_sections[1][1]
                 /\ result.proxy_headers = header_sections[1][2]
                 /\ result.headers = header_sections[n][2]
            ELSE /\ result.proxy_status_code = None
                 /\ result.proxy_headers = <<>>
                 /\ result.headers = IF n >= 1 THEN header_sections[n][2] ELSE <<>>

\* an https request through a proxy returned three sections, the middle one ignored
C2_Witness ==
    /\ Returned /\ HttpsViaProxy
    /\ args.url = UrlHttpsUpper
    /\ Len(header_sections) = 3
    /\ result.proxy_status_code = Some(407)
    /\ header_sections[2][2] # <<>>
    /\ result.headers # header_sections[2][2]
    /\ result.proxy_headers # header_sections[2][2]

\* a request with a proxy has set its options
ProxyRequestConfigured == c.URL # None /\ args.proxy # None /\ args.proxy[1] # <<>>
\* the list given to PROXYHEADER, empty when the option was not set
ProxyBlock == IF c.PROXYHEADER = None THEN <<>> ELSE c.PROXYHEADER[1]
InProxyBlock(k, v) == \E i \in 1..Len(ProxyBlock) : ProxyBlock[i] = k \o <<":", " ">> \o v
RequestProxyHeaders == IF args.proxy_headers = None THEN <<>> ELSE args.proxy_headers[1]

\* C3: for instance headers H1 and per-request headers H2 that both hold a header named
\* exactly K, the proxy header block holds K with H2's value and not H1's, and every
\* header of H1 whose name is not in H2 is in the block with its H1 value.
C3_RequestHeadersOverride ==
    ProxyRequestConfigured =>
        \A k \in DictKeys(self_proxy_headers) :
            IF k \in DictKeys(RequestProxyHeaders)
            THEN /\ InProxyBlock(k, DictGet(RequestProxyHeaders, k))
                 /\ DictGet(RequestProxyHeaders, k) # DictGet(self_proxy_headers, k)
                        => ~InProxyBlock(k, DictGet(self_proxy_headers, k))
            ELSE InProxyBlock(k, DictGet(self_proxy_headers, k))

\* a request overrode X-K of the instance headers and kept X-B
C3_Witness ==
    /\ ProxyRequestConfigured
    /\ KeyK \in DictKeys(self_proxy_headers) \cap DictKeys(RequestProxyHeaders)
    /\ DictGet(RequestProxyHeaders, KeyK) # DictGet(self_proxy_headers, KeyK)
    /\ KeyB \in DictKeys(self_proxy_headers) \ DictKeys(RequestProxyHeaders)
    /\ Len(ProxyBlock) = 2

\* the name and the value of a "Name: Value" line
LineName(line) == Strip(Split(line, ":", 1)[1])
LineValue(line) == Strip(Split(line, ":", 1)[2])
\* the lines of the proxy header block whose name is k in any letter case
BlockEntries(k) == {i \in 1..Len(ProxyBlock) : Lower(LineName(ProxyBlock[i])) = Lower(k)}

\* C4: when H1 and H2 hold names that differ only in letter case, the CONNECT header
\* block holds a single entry for that name, with H2's value, and none with H1's value.
C4_CaseInsensitiveOverride ==
    ProxyRequestConfigured =>
        \A k1 \in DictKeys(self_proxy_headers), k2 \in DictKeys(RequestProxyHeaders) :
            (k1 # k2 /\ Lower(k1) = Lower(k2)) =>
                /\ Cardinality(BlockEntries(k2)) = 1
                /\ \A i \in BlockEntries(k2) :
                      LineValue(ProxyBlock[i]) = DictGet(RequestProxyHeaders, k2)

\* the managers built so far for (prefix, proxy) by the adapter mounted on prefix
BuiltFor(prefix, proxy) == {m \in managers : m.id[2] = prefix /\ m.id[3] = proxy}
\* the last proxy_manager_for call was made on a mounted adapter and returned a manager
LastReturned == binding = "cloudscraper" /\ last.generation = generation /\ last.manager # None
\* the cache of the adapter the last call was made on
LastCache == adapters[last.prefix].proxy_manager

\* C5: over sequential proxy_manager_for calls on one adapter the cache holds at most one
\* manager per proxy URL: a call with a cached URL returns the manager built for that
\* URL and constructs nothing, and different URLs get distinct managers.
C5_OneManagerPerUrl ==
    /\ \A prefix \in Prefixes, proxy \in CloudProxyUrls : Cardinality(BuiltFor(prefix, proxy)) <= 1
    /\ \A prefix \in Prefixes :
          \A i, j \in 1..Len(adapters[prefix].proxy_manager) :
              i # j => adapters[prefix].proxy_manager[i][2] # adapters[prefix].proxy_manager[j][2]
    /\ LastReturned =>
          /\ last.manager[1] \in {m.id : m \in BuiltFor(last.prefix, last.proxy)}
          /\ DictHas(LastCache, last.proxy) /\ DictGet(LastCache, last.proxy) = last.manager[1]
          /\ last.cached_before => last.how = "hit"

\* a call for a cached URL returned the cached manager while a second URL is cached too
C5_Witness ==
    /\ LastReturned /\ last.cached_before /\ last.how = "hit"
    /\ Len(LastCache) >= 2
    /\ Cardinality(BuiltFor(last.prefix, last.proxy)) = 1

\* C6: when callers run proxy_manager_for concurrently for one proxy key on one adapter,
\* exactly one manager is constructed for the key and every caller gets that manager.
C6_SingleConstruction ==
    /\ \A proxy \in CloudProxyUrls : Cardinality(BuiltFor(ThreadPrefix, proxy)) <= 1
    /\ \A t1, t2 \in Threads :
          (/\ threads[t1].at = "done" /\ threads[t2].at = "done"
           /\ threads[t1].proxy = threads[t2].proxy
           /\ threads[t1].manager # None /\ threads[t2].manager # None)
              => threads[t1].manager = threads[t2].manager

\* the custom headers the scraper is configured with
ScraperHeaders == OrEmpty(scraper_proxy_headers)

\* C7: after set_proxy_headers(H') the manager or session a later request obtains was
\* constructed after the update, under H' (a header-bearing manager carries every header
\* of H'); nothing constructed under the earlier header set is returned.
C7_UpdateReplacesCached ==
    /\ LastReturned =>
          \E m \in managers :
              /\ m.id = last.manager[1]
              /\ m.id[1] = generation
              /\ m.built_under = ScraperHeaders
              /\ m.kind = "header" =>
                    \A k \in DictKeys(ScraperHeaders) :
                        /\ DictHas(m.proxy_headers[1], k)
                        /\ DictGet(m.proxy_headers[1], k) = DictGet(ScraperHeaders, k)
    /\ (binding = "autoscraper" /\ last_session # None) =>
          /\ last_session = auto_session
          /\ sessions[last_session[1]].proxy_headers = auto_proxy_headers
          /\ ~sessions[last_session[1]].closed

\* a request after an update to {Proxy-Authorization: c, X-K: 2} got a cached manager
C7_Witness ==
    /\ LastReturned /\ generation = 1 /\ last.how = "hit"
    /\ ScraperHeaders = <<<<KeyAuth, <<"c">>>>, <<KeyK, <<"2">>>>>>
    /\ \E m \in managers : m.id = last.manager[1] /\ m.kind = "header"

\* a request after an update of a ProxyAutoScraper got a second session
C7_WitnessSession ==
    /\ binding = "autoscraper" /\ last_session = Some(2)
    /\ sessions[1].closed /\ sessions[1].proxy_headers # sessions[2].proxy_headers

\* C8: for a proxy URL whose scheme starts with "socks" in any letter case,
\* proxy_manager_for builds no header-injecting manager and attaches no proxy headers:
\* it returns the default path's manager and raises nothing, custom headers or not.
C8_SocksBypassesInjection ==
    /\ \A m \in managers : m.id[3] = PSocks => (m.kind = "socks" /\ m.proxy_headers = None)
    /\ (binding = "cloudscraper" /\ last.generation = generation /\ last.proxy = PSocks) =>
          /\ last.how \in {"default", "hit"}
          /\ \E m \in managers : m.id = last.manager[1] /\ m.kind = "socks"

\* a SOCKS5:// proxy got the default manager on an adapter that has custom headers
C8_Witness ==
    /\ binding = "cloudscraper" /\ last.generation = generation
    /\ last.proxy = PSocks /\ last.how = "default"
    /\ adapters[last.prefix].proxy_headers # <<>>

\* the standard proxy headers of the proxy URLs
ExpectedStandard(proxy) ==
    IF proxy = PAuth THEN <<<<KeyAuth, <<"B", "a", "s", "i", "c", " ", "u", ":", "w">>>>>> ELSE <<>>

\* C9: the header set given to a manager created for a non-SOCKS proxy is the standard
\* proxy headers merged with the custom ones: a custom value wins on an equal name and
\* every other standard header is kept.
C9_CustomOverStandard ==
    \A m \in managers :
        m.kind = "header" =>
            LET given == m.proxy_headers[1]
                custom == m.built_under
                standard == ExpectedStandard(m.id[3])
            IN  /\ DictKeys(given) = DictKeys(standard) \cup DictKeys(custom)
                /\ \A k \in DictKeys(custom) : DictGet(given, k) = DictGet(custom, k)
                /\ \A k \in DictKeys(standard) \ DictKeys(custom) :
                      DictGet(given, k) = DictGet(standard, k)

\* a manager for http://u:w@p was built on an adapter whose custom headers hold
\* Proxy-Authorization: the custom value was given
C9_Witness ==
    \E m \in managers :
        /\ m.kind = "header" /\ m.id[3] = PAuth
        /\ DictHas(m.built_under, KeyAuth)
        /\ m.proxy_headers[1] = <<<<KeyAuth, <<"c">>>>, <<KeyK, <<"2">>>>>>

\* a manager for http://u:w@p was built on an adapter whose custom headers lack
\* Proxy-Authorization: the standard value was kept
C9_WitnessKept ==
    \E m \in managers :
        /\ m.kind = "header" /\ m.id[3] = PAuth
        /\ m.built_under = <<<<KeyK, <<"1">>>>>>
        /\ Len(m.proxy_headers[1]) = 2

\* after a call that raised, the cache has no entry for the key; the call after a failure
\* for the same key attempts the construction again
AfterFailedConstruction ==
    (binding = "cloudscraper" /\ last.generation = generation) =>
        /\ last.how = "raised" =>
              /\ last.manager = None
              /\ ~DictHas(LastCache, last.proxy)
              /\ BuiltFor(last.prefix, last.proxy) = {}
        /\ last.raised_before => last.how \in {"created", "raised"}

\* a call that raises leaves every cache and every manager as it was
FailedConstructionStep ==
    (last' # last /\ last'.how = "raised") => (adapters' = adapters /\ managers' = managers)

\* C10: when the construction of a manager fails inside proxy_manager_for, the caller
\* gets the failure, the cache has no entry for the key and the other entries are
\* unchanged, and a later call for the key attempts the construction again.
C10_FailureLeavesNoEntry == []AfterFailedConstruction /\ [][FailedConstructionStep]_vars

\* a retry after a failed construction succeeded, next to another cached key
C10_Witness ==
    /\ binding = "cloudscraper" /\ last.generation = generation
    /\ last.raised_before /\ last.how = "created"
    /\ Len(LastCache) >= 2

\* w is status lines with a non-zero code, each followed by its header lines, blank
\* lines anywhere; a block may repeat a header name
StructuredBlocks(w) ==
    /\ StatusPositions(w) # {}
    /\ \A i \in 1..Len(w) : w[i].kind \in {"status", "header", "blank"}
    /\ \A i \in StatusPositions(w) : w[i].code # 0
    /\ \A i \in 1..Len(w) : IsHeaderItem(w[i]) => \E j \in StatusPositions(w) : j < i

\* C11: when one response section contains several header lines with the same name,
\* the parsed section keeps all of them as separate entries in wire order; a later
\* header line never overwrites an earlier one of the same name.
C11_DuplicatesKept ==
    (Returned /\ StructuredBlocks(wire)) =>
        /\ Len(header_sections) = Cardinality(StatusPositions(wire))
        /\ \A n \in 1..Len(header_sections) : header_sections[n][2] = BlockHeaders(wire, n)

\* the text of a line as the parse sees it
LineStr(it) == Strip(Serialize(it))
\* the line begins with the status-line prefix
HasStatusPrefix(it) == StartsWith(LineStr(it), <<"H", "T", "T", "P", "/">>)
\* a line with the status-line prefix whose code is absent or not an integer
MalformedStatus(it) ==
    /\ HasStatusPrefix(it)
    /\ LET parts == Split(LineStr(it), " ", 2)
       IN  Len(parts) < 2 \/ ~IntValid(parts[2])
\* the positions of the lines of w with the status-line prefix
PrefixPositions(w) == {i \in 1..Len(w) : HasStatusPrefix(w[i])}
\* the last line of w with the status-line prefix is malformed and header lines follow it
EndsWithMalformedSection(w) ==
    /\ PrefixPositions(w) # {}
    /\ LET p == CHOOSE i \in PrefixPositions(w) : \A j \in PrefixPositions(w) : j <= i
       IN  /\ MalformedStatus(w[p])
           /\ \E i \in (p + 1)..Len(w) : IsHeaderItem(w[i])

\* C12: the section started by a line with the prefix HTTP/ whose status code is absent
\* or not a valid integer has status none, never the status of the section before it,
\* and the parse goes on over the remaining lines without an error.
C12_MalformedStatusIsNone ==
    (Returned /\ EndsWithMalformedSection(wire)) =>
        /\ header_sections # <<>>
        /\ header_sections[Len(header_sections)][1] = None

\* the transfer of the current request has started
TransferStarted == pc = "perform" \/ c.performed >= 1

\* C13: proxy headers are attached to the transport only together with the option that
\* separates proxy headers from origin headers: a transfer is never performed with
\* PROXYHEADER set and HEADEROPT not set to HEADER_SEPARATE (the request fails before
\* perform when the transport cannot take the option).
C13_ProxyHeadersOnlySeparated ==
    (TransferStarted /\ c.PROXYHEADER # None) => c.HEADEROPT = Some(1)

\* the list given to HTTPHEADER, empty when the option was not set
OriginBlock == IF c.HTTPHEADER = None THEN <<>> ELSE c.HTTPHEADER[1]
OriginHeaders == IF args.headers = None THEN <<>> ELSE args.headers[1]
\* the names of the instance-level and per-request proxy headers
ProxyHeaderNames == DictKeys(self_proxy_headers) \cup DictKeys(RequestProxyHeaders)
\* some line of block is the header named k
NamedIn(block, k) == \E i \in 1..Len(block) : LineName(block[i]) = k

\* C14: in every request call the merged proxy headers are only in the proxy header
\* list, the caller's origin headers are only in the origin header list, and without a
\* proxy the proxy headers are in neither list.
C14_HeaderListsSeparate ==
    c.URL # None =>
        /\ \A i \in 1..Len(OriginBlock) :
              /\ LineName(OriginBlock[i]) \in DictKeys(OriginHeaders)
              /\ LineValue(OriginBlock[i]) = DictGet(OriginHeaders, LineName(OriginBlock[i]))
              /\ LineName(OriginBlock[i]) \notin ProxyHeaderNames
        /\ \A k \in DictKeys(OriginHeaders) : NamedIn(OriginBlock, k) /\ ~NamedIn(ProxyBlock, k)
        /\ \A i \in 1..Len(ProxyBlock) : LineName(ProxyBlock[i]) \in ProxyHeaderNames
        /\ IF args.proxy # None /\ args.proxy[1] # <<>>
           THEN \A k \in ProxyHeaderNames : NamedIn(ProxyBlock, k)
           ELSE c.PROXYHEADER = None /\ c.PROXY = None

\* a request with a proxy, proxy headers of both levels and an origin header
C14_Witness ==
    /\ ProxyRequestConfigured
    /\ Len(OriginBlock) = 1 /\ Len(ProxyBlock) = 3
    /\ DictKeys(self_proxy_headers) # {} /\ DictKeys(RequestProxyHeaders) # {}

\* a request without a proxy on an instance with proxy headers, with per-request proxy
\* headers and an origin header
C14_WitnessNoProxy ==
    /\ c.URL # None /\ args.proxy = None
    /\ self_proxy_headers # <<>> /\ RequestProxyHeaders # <<>>
    /\ Len(OriginBlock) = 1 /\ c.PROXYHEADER = None

\* the status code the message of a raised status error ends with
CodeInMessage(message) == IntOf(Split(message, " ", 2)[3])

\* C15: raise_for_status raises an error carrying the status code exactly when the
\* origin status code is >= 400, and only when the caller runs it: whenever the
\* transfer completes, request returns a ProxyResponse with the transport's status
\* code, whatever the code.
C15_StatusCheckOnDemand ==
    /\ c.RESPONSE_CODE # None =>
          /\ result.kind = "response"
          /\ result.status_code = c.RESPONSE_CODE[1]
    /\ status_check.kind # "not_called" =>
          /\ result.kind = "response"
          /\ status_check.kind = "raised" <=> result.status_code >= 400
          /\ status_check.kind = "raised" =>
                CodeInMessage(status_check.message) = Some(result.status_code)
          /\ status_check.kind = "passed" => status_check.message = <<>>

\* the caller ran raise_for_status on a response with status 400 and it raised
C15_Witness ==
    /\ Returned /\ result.status_code = 400
    /\ status_check.kind = "raised"

\* a response with status 404 was returned and the caller has not run raise_for_status
C15_WitnessReturned ==
    /\ Returned /\ result.status_code = 404 /\ status_check.kind = "not_called"

\* the caller ran raise_for_status on a response with status 399 and it returned
C15_WitnessPassed ==
    /\ Returned /\ result.status_code = 399 /\ status_check.kind = "passed"

\* the bytes of the lines the transport delivered during the current request
Delivered == [i \in 1..Len(wire) |-> Serialize(wire[i])]

\* C16: on a reused ProxyCurl every request starts with an empty capture list: the
\* sections of a request are computed from the lines delivered during that request
\* alone, also when the request before it failed after lines had been captured.
C16_FreshCapturePerRequest ==
    /\ c.URL # None => header_lines = Delivered
    /\ Returned => header_sections = ParseHeaders(Delivered)

\* the request after one that failed part-way returned the one block it was sent
C16_Witness ==
    /\ earlier_failed /\ Returned
    /\ wire = <<StatusOK, HeaderB2>>
    /\ header_sections = <<<<Some(200), <<<<NameB, <<"2">>>>>>>>>>

\* C17: a request call performs the transfer once: when the transfer fails the error
\* goes to the caller with no retry, no ProxyResponse is returned, nothing of the
\* partial capture is given out, and the request's handle is closed on the failure
\* path as on the success path.
C17_SingleTransferNoRetry ==
    /\ c.performed <= 1
    /\ pc = "perform" => (c.performed = 0 /\ ~c.closed)
    /\ (pc = "idle" /\ c.URL # None) =>
          /\ c.performed = 1 /\ c.closed
          /\ result.kind \in {"response", "error"}
    /\ result.kind = "error" =>
          /\ pc = "idle" /\ c.RESPONSE_CODE = None
          /\ header_sections = <<>>
          /\ result.headers = <<>> /\ result.proxy_headers = <<>>
          /\ result.proxy_status_code = None
          /\ status_check = NotChecked

\* a transfer failed after two lines had been captured
C17_Witness ==
    /\ pc = "idle" /\ result.kind = "error"
    /\ Len(header_lines) = 2 /\ c.performed = 1 /\ c.closed

\* C18: when the CONNECT handshake fails after the proxy has delivered a status line
\* and headers, the failure given to the caller is distinguishable from an origin HTTP
\* error and carries the proxy status and the proxy headers received before it.
C18_ConnectFailureCarriesProxySection ==
    (result.kind = "error" /\ HttpsViaProxy /\ wire # <<>> /\ IsStatusItem(wire[1])) =>
        /\ result.proxy_status_code = Some(wire[1].code)
        /\ result.proxy_headers = BlockHeaders(wire, 1)

\* the names a and b are equal ignoring letter case
EqualIgnoringCase(a, b) ==
    /\ Len(a) = Len(b)
    /\ \A i \in 1..Len(a) :
          \/ a[i] = b[i]
          \/ \E k \in 1..26 : {a[i], b[i]} = {UpperLetters[k], LowerLetters[k]}

\* C19: header lookup on a response is case-insensitive: a lookup name that equals a
\* stored name ignoring letter case finds the header and gets the value of the first
\* matching entry; a lookup name that matches no stored name finds nothing.
C19_CaseInsensitiveLookup ==
    header_lookup.name # None =>
        LET name == header_lookup.name[1]
            hs == result.headers
        IN  /\ \A i \in 1..Len(hs) :
                  (/\ EqualIgnoringCase(hs[i][1], name)
                   /\ \A j \in 1..(i - 1) : ~EqualIgnoringCase(hs[j][1], name))
                      => header_lookup.value = Some(hs[i][2])
            /\ (\A i \in 1..Len(hs) : ~EqualIgnoringCase(hs[i][1], name))
                  => header_lookup.value = None

\* a lookup for X-a on headers x-a: 7 and X-A: 1 got 7, the first of the two matches
C19_Witness ==
    /\ Returned /\ header_lookup.name = Some(<<"X", "-", "a">>)
    /\ result.headers = <<<<NameALower, <<"7">>>>, <<NameA, <<"1">>>>>>
    /\ header_lookup.value = Some(<<"7">>)

\* a lookup for X-C on headers X-A: 1 and X-B: 2 found nothing
C19_WitnessMissing ==
    /\ Returned /\ header_lookup.name = Some(<<"X", "-", "C">>)
    /\ Len(result.headers) = 2 /\ header_lookup.value = None

\* a line that is blank, or neither has the status-line prefix nor contains ':'
Ignorable(it) == ~HasStatusPrefix(it) /\ ~Contains(LineStr(it), ":")
Meaningful(it) == ~Ignorable(it)

\* C20: blank lines and lines that are neither a status line nor contain ':' never
\* change the parse: a capture buffer and the buffer without those lines give the same
\* list of sections, so section boundaries come from status lines only.
C20_IgnorableLinesNoEffect ==
    Returned =>
        LET kept == SelectSeq(wire, Meaningful)
        IN  header_sections = ParseHeaders([i \in 1..Len(kept) |-> Serialize(kept[i])])

\* a block with a junk line and a blank line between its status line and its header
C20_Witness ==
    /\ Returned
    /\ wire = <<StatusOK, Junk, BlankItem, HeaderA1>>
    /\ header_sections = <<<<Some(200), <<<<NameA, <<"1">>>>>>>>>>

\* the header entries of the header lines of w, in wire order
AllHeaders(w) ==
    LET hs == SelectSeq(w, IsHeaderItem)
    IN  [i \in 1..Len(hs) |-> <<hs[i].a, hs[i].b>>]

\* C21: an empty capture buffer parses to zero sections, and a capture buffer with
\* header lines but no status line parses to exactly one section whose status is none
\* and whose headers are those lines.
C21_EmptyAndHeaderOnlyBuffers ==
    Returned =>
        /\ wire = <<>> => header_sections = <<>>
        /\ (PrefixPositions(wire) = {} /\ AllHeaders(wire) # <<>>) =>
              header_sections = <<<<None, AllHeaders(wire)>>>>

\* the first line of w that is not blank is a status line, and every line of w with the
\* status-line prefix is a status line with an integer code
StartsWithStatusLine(w) ==
    /\ \E i \in 1..Len(w) :
          /\ IsStatusItem(w[i])
          /\ \A j \in 1..(i - 1) : w[j].kind = "blank"
    /\ \A i \in PrefixPositions(w) : IsStatusItem(w[i])

\* C22: the parse yields one section per status line: for a capture buffer whose first
\* non-blank line is a status line the number of sections equals the number of status
\* lines, whatever the status codes and whether or not header lines follow them.
C22_OneSectionPerStatusLine ==
    (Returned /\ StartsWithStatusLine(wire)) =>
        Len(header_sections) = Cardinality(StatusPositions(wire))

\* the parse step leaves the capture list as it was
ParseKeepsBuffer ==
    (pc = "perform" /\ pc' = "idle" /\ result'.kind = "response") => header_lines' = header_lines

\* the sections are the parse of the capture list as it stands, and no parsed view
\* exists while lines are still being appended
ParsedViewCurrent ==
    /\ Returned => header_sections = ParseHeaders(header_lines)
    /\ pc = "perform" => header_sections = <<>>

SendsInstanceHeaders ==
    (ProxyRequestConfigured /\ ~Truthy(args.proxy_headers)) =>
        ProxyBlock = HeaderList(self_proxy_headers)

\* C26: per-request proxy headers never leak into later requests: a request call leaves
\* the instance-level header set unchanged, so a following request on the instance made
\* without per-request headers sends exactly the instance-level headers.
C26_RequestHeadersDoNotLeak ==
    []SendsInstanceHeaders /\ [][self_proxy_headers' = self_proxy_headers]_vars

\* after a request that overrode X-K with 2, a request without per-request headers sent
\* X-K: 1 and X-B: b
C26_Witness ==
    /\ ProxyRequestConfigured
    /\ earlier_proxy_headers = Some(<<<<KeyK, <<"2">>>>>>)
    /\ args.proxy_headers = None
    /\ ProxyBlock = HeaderList(<<<<KeyK, <<"1">>>>, <<KeyB, <<"b">>>>>>)

\* the status of the last parsed section, none when there is no section
LastParsedStatus ==
    IF header_sections = <<>> THEN None ELSE header_sections[Len(header_sections)][1]

\* C27: the origin status code of the returned ProxyResponse is the status code the
\* transport reports for the final response; the status parsed from the last captured
\* section is never used for it, also when the two differ or the parsed status is none.
C27_StatusFromTransport ==
    Returned =>
        /\ c.RESPONSE_CODE # None
        /\ result.status_code = c.RESPONSE_CODE[1]

\* the transport reported 404 while the last captured section says 200
C27_Witness ==
    /\ Returned /\ c.RESPONSE_CODE = Some(404)
    /\ LastParsedStatus = Some(200)
    /\ result.status_code = 404

\* the transport reported 404 while no status line was captured
C27_WitnessNone ==
    /\ Returned /\ c.RESPONSE_CODE = Some(404)
    /\ header_sections # <<>> /\ LastParsedStatus = None
    /\ result.status_code = 404

\* the sessions that have not been closed
LiveSessions == {i \in 1..Len(sessions) : ~sessions[i].closed}

\* at most one session is live, it is the one held, and the held session was created
\* with the scraper's current proxy headers
OneCurrentSession ==
    /\ Cardinality(LiveSessions) <= 1
    /\ \A i \in LiveSessions : auto_session = Some(i)
    /\ auto_session # None =>
          /\ auto_session[1] \in LiveSessions
          /\ sessions[auto_session[1]].proxy_headers = auto_proxy_headers
    /\ last_session # None => (last_session = auto_session /\ last_session[1] \in LiveSessions)

\* _get_session calls with no close or update between them return the same session, a
\* closed session stays closed and is not returned, and with no session held close and
\* set_proxy_headers touch no session
SessionSteps ==
    /\ (last_session # None /\ last_session' # None) =>
          (last_session' = last_session /\ sessions' = sessions)
    /\ (auto_session = None /\ auto_session' = None) => sessions' = sessions
    /\ \A i \in 1..Len(sessions) :
          sessions[i].closed => (sessions'[i].closed /\ last_session' # Some(i))

\* C28: after any sequence of _get_session, set_proxy_headers and close calls on a
\* ProxyAutoScraper there is at most one live session, a held session was created with
\* the current proxy headers, consecutive _get_session calls return the same session, a
\* closed session is never returned again, and close with no session is a no-op.
C28_OneLiveSession == []OneCurrentSession /\ [][SessionSteps]_vars

\* the third session is held after an update and a close ended the first two
C28_Witness ==
    /\ binding = "autoscraper" /\ Len(sessions) = 3
    /\ sessions[1].closed /\ sessions[2].closed
    /\ sessions[1].proxy_headers # sessions[2].proxy_headers
    /\ sessions[2].proxy_headers = sessions[3].proxy_headers
    /\ last_session = Some(3)

\* the module names the command line selects: those left after the verbose flags, or
\* every registered module when none is left
SelectedModules ==
    IF ParseVerbose(sys_argv).rest = <<>> THEN AVAILABLE_TESTS
    ELSE ParseVerbose(sys_argv).rest

\* a probe ran for every selected module, in order, and each found the header
EveryProbeFound ==
    /\ Len(probes) = Len(SelectedModules)
    /\ \A i \in 1..Len(probes) :
          probes[i].module = Lower(SelectedModules[i]) /\ probes[i].outcome = "found"

C24_WitnessOneFailed ==
    /\ harness_pc = "done" /\ exit_code = Some(1)
    /\ Len(results) = 2 /\ results[1].success /\ ~results[2].success

\* the run was interrupted after a probe had found the header
C24_WitnessInterrupted ==
    /\ harness_pc = "interrupted" /\ Len(probes) = 1 /\ probes[1].outcome = "found"

\* an environment variable is set to a non-empty value
SetNonEmpty(v) == v # None /\ v[1] # <<>>

\* PROXY_URL if set and non-empty, otherwise HTTPS_PROXY, otherwise https_proxy
ProxyUrlOfEnvironment ==
    IF SetNonEmpty(environ.PROXY_URL) THEN environ.PROXY_URL
    ELSE IF SetNonEmpty(environ.HTTPS_PROXY) THEN environ.HTTPS_PROXY
    ELSE IF SetNonEmpty(environ.https_proxy) THEN environ.https_proxy
    ELSE None

\* C25: the proxy URL of the configuration and of every probe's call is PROXY_URL if set
\* and non-empty, otherwise HTTPS_PROXY, otherwise https_proxy; a test run with none of
\* them exits with code 1 before any module test; and a probe passes proxy headers to
\* its binding only when SEND_PROXY_HEADER and SEND_PROXY_VALUE are both set, and then
\* exactly that header.
C25_ConfigurationFromEnvironment ==
    /\ config # None => Some(config[1].proxy_url) = ProxyUrlOfEnvironment
    /\ \A i \in 1..Len(probes) :
          probes[i].call # None =>
             /\ Some(probes[i].call[1].proxy) = ProxyUrlOfEnvironment
             /\ probes[i].call[1].proxy_headers # None =>
                   /\ environ.SEND_PROXY_HEADER # None /\ environ.SEND_PROXY_VALUE # None
                   /\ probes[i].call[1].proxy_headers =
                         Some(<<<<environ.SEND_PROXY_HEADER[1], environ.SEND_PROXY_VALUE[1]>>>>)
    /\ (harness_pc \notin {"start", "help", "list"} /\ ProxyUrlOfEnvironment = None) =>
          /\ harness_pc = "no_proxy" /\ exit_code = Some(1)
          /\ probes = <<>> /\ results = <<>>

\* PROXY_URL is empty and HTTPS_PROXY unset: the probe's call went to the https_proxy
\* URL with the configured header
C25_Witness ==
    /\ environ.PROXY_URL = Some(<<>>) /\ environ.HTTPS_PROXY = None
    /\ Len(probes) = 1 /\ probes[1].call # None
    /\ probes[1].call[1].proxy = EnvSet.https_proxy
    /\ probes[1].call[1].proxy_headers =
          Some(<<<<EnvSet.SEND_PROXY_HEADER, EnvSet.SEND_PROXY_VALUE>>>>)

\* a module test was requested with no proxy URL in the environment
C25_WitnessNoProxy ==
    /\ harness_pc = "no_proxy" /\ test_names = Some(<<AVAILABLE_TESTS[5]>>)
    /\ environ.PROXY_URL = None /\ environ.HTTPS_PROXY = None /\ environ.https_proxy = None

\* only the header name is set: the probe's call carried no proxy headers
C25_WitnessNameOnly ==
    /\ environ.SEND_PROXY_HEADER = Some(EnvSet.SEND_PROXY_HEADER) /\ environ.SEND_PROXY_VALUE = None
    /\ Len(probes) = 1 /\ probes[1].call # None /\ probes[1].call[1].proxy_headers = None

\* name.lower() is a key of the registry
Registered(name) == Lower(name) \in {AVAILABLE_TESTS[i] : i \in 1..Len(AVAILABLE_TESTS)}

\* the positions of the registered names among the first n requested names, in order
RegisteredPositions(names, n) ==
    SelectSeq([i \in 1..n |-> i], LAMBDA i : Registered(names[i]))

\* C29: run_tests returns exactly one result per requested module name, in the requested
\* order: the results so far answer the names one by one; the probes that ran are those
\* of the registered names among them, in order, each with its result, which is a failed
\* result when the probe raised or could not import; an unknown name has a failed result
\* and no probe; and a run_tests that returned has answered every name.
C29_OneResultPerName ==
    LET names == RunTestsNames(test_names)
        probed == RegisteredPositions(names, Len(results))
    IN  /\ Len(results) <= Len(names)
        /\ harness_pc = "done" => Len(results) = Len(names)
        /\ Len(probes) = Len(probed)
        /\ \A k \in 1..Len(probed) :
              /\ probes[k].module = Lower(names[probed[k]])
              /\ results[probed[k]].module_name = probes[k].module
              /\ results[probed[k]].success = (probes[k].outcome = "found")
        /\ \A i \in 1..Len(results) :
              (\A k \in 1..Len(probed) : probed[k] # i) =>
                  (results[i].module_name = names[i] /\ ~results[i].success)

\* the first probe raised, the second could not be imported, run_tests returned both
C29_Witness ==
    /\ harness_pc = "done" /\ Len(results) = 2 /\ Len(probes) = 2
    /\ probes[1].outcome = "Exception" /\ probes[2].outcome = "ImportError"
    /\ ~results[1].success /\ ~results[2].success

\* an unknown name before a registered one: one probe ran, for the second name
C29_WitnessUnknown ==
    /\ harness_pc = "done" /\ Len(results) = 2 /\ Len(probes) = 1
    /\ ~Registered(results[1].module_name) /\ ~results[1].success
    /\ results[2].module_name = AVAILABLE_TESTS[5] /\ results[2].success

\* a probe raised and a later probe found the header
C29_WitnessContinues ==
    /\ Len(probes) = 2 /\ probes[1].outcome = "Exception" /\ probes[2].outcome = "found"
    /\ Len(results) = 2 /\ results[2].success

====
